---------------------------- MODULE Spec2Model ----------------------------
(***************************************************************************)
(* Model of sweagent/utils/log.py: the process-wide logging registry.      *)
(*                                                                         *)
(* Python strings are sequences of one-character strings, so that          *)
(* concatenation, the substring test `f in name`, str.upper(),             *)
(* str.isnumeric(), int() and the dotted logger hierarchy are computed,    *)
(* not assumed.  Every function of the module is a sequence of steps of    *)
(* the calling thread; a step is named after the source line it executes   *)
(* (thread-local lines are folded into the next access to shared state).   *)
(***************************************************************************)
EXTENDS Integers, Sequences, FiniteSets, TLC

(***************************************************************************)
(* Bounds of the model.                                                    *)
(***************************************************************************)
\* number of calls of the public functions made after the module is imported
MaxCalls == 3

(***************************************************************************)
(* Strings.                                                                *)
(***************************************************************************)
LowerChars == <<"a","b","c","d","e","f","g","h","i","j","k","l","m",
                "n","o","p","q","r","s","t","u","v","w","x","y","z">>
UpperChars == <<"A","B","C","D","E","F","G","H","I","J","K","L","M",
                "N","O","P","Q","R","S","T","U","V","W","X","Y","Z">>
DigitChars == <<"0","1","2","3","4","5","6","7","8","9">>

\* str.upper(), one character
UpperChar(c) ==
    IF \E i \in 1..Len(LowerChars) : LowerChars[i] = c
    THEN UpperChars[CHOOSE i \in 1..Len(LowerChars) : LowerChars[i] = c]
    ELSE c

\* mutant of Upper: the .upper() call is left out
UpperLeftOut(s) == s

\* str.upper()
Upper(s) == [i \in 1..Len(s) |-> UpperChar(s[i])]

\* str.isnumeric(): non-empty and every character is a digit
IsNumeric(s) ==
    /\ Len(s) > 0
    /\ \A i \in 1..Len(s) : \E d \in 1..Len(DigitChars) : DigitChars[d] = s[i]

DigitVal(c) == (CHOOSE d \in 1..Len(DigitChars) : DigitChars[d] = c) - 1

\* int(s) for a string of decimal digits
RECURSIVE ParseInt(_)
ParseInt(s) ==
    IF Len(s) = 0 THEN 0
    ELSE 10 * ParseInt(SubSeq(s, 1, Len(s) - 1)) + DigitVal(s[Len(s)])

\* the Python test `f in n` on strings
IsSubstring(f, n) ==
    \E i \in 0..(Len(n) - Len(f)) : SubSeq(n, i + 1, i + Len(f)) = f

\* str.endswith(" ")
EndsWithSpace(s) == Len(s) > 0 /\ s[Len(s)] = " "

(***************************************************************************)
(* Severities: logging's table of upper-case module attributes, with the   *)
(* TRACE level the module adds.                                            *)
(***************************************************************************)
TRACE == 5
DEBUG == 10
INFO == 20
WARNING == 30
ERROR == 40
CRITICAL == 50
NOTSET == 0

\* getattr(logging, NAME): the integer attributes
LoggingIntAttrs ==
    { <<<<"T","R","A","C","E">>, TRACE>>,
      <<<<"D","E","B","U","G">>, DEBUG>>,
      <<<<"I","N","F","O">>, INFO>>,
      <<<<"W","A","R","N","I","N","G">>, WARNING>>,
      <<<<"W","A","R","N">>, WARNING>>,
      <<<<"E","R","R","O","R">>, ERROR>>,
      <<<<"C","R","I","T","I","C","A","L">>, CRITICAL>>,
      <<<<"F","A","T","A","L">>, CRITICAL>>,
      <<<<"N","O","T","S","E","T">>, NOTSET>> }

\* getattr(logging, NAME): the upper-case attributes that are not integers
LoggingOtherAttrs == { <<"B","A","S","I","C","_","F","O","R","M","A","T">> }

\* A level specification: None, an int or a str
NoneSpec == [t |-> "none", n |-> 0, s |-> <<>>]
IntSpec(n) == [t |-> "int", n |-> n, s |-> <<>>]
StrSpec(s) == [t |-> "str", n |-> 0, s |-> s]

\* The outcome of a call: an integer, a non-integer object, or an exception
IntResult(n) == [kind |-> "int", val |-> n, exc |-> ""]
ObjResult == [kind |-> "object", val |-> 0, exc |-> ""]
Raised(e) == [kind |-> "raise", val |-> 0, exc |-> e]

\* `not level`: None, 0 and "" are falsy
Falsy(level) ==
    \/ level.t = "none"
    \/ level.t = "int" /\ level.n = 0
    \/ level.t = "str" /\ level.s = <<>>

\* getattr(logging, name)
GetAttrLogging(name) ==
    IF \E p \in LoggingIntAttrs : p[1] = name
    THEN IntResult((CHOOSE p \in LoggingIntAttrs : p[1] = name)[2])
    ELSE IF name \in LoggingOtherAttrs THEN ObjResult
    ELSE Raised("AttributeError")

interpret_level(level, default) ==
    IF Falsy(level) THEN IntResult(default)
    ELSE IF level.t = "int" THEN IntResult(level.n)
    ELSE IF IsNumeric(level.s) THEN IntResult(ParseInt(level.s))
    ELSE GetAttrLogging(Upper(level.s))

Min(a, b) == IF a <= b THEN a ELSE b

\* no function is being applied on its own
NoCall == [fn |-> "", level |-> NoneSpec, default |-> 0]
NoReturn == [kind |-> "none", val |-> 0, exc |-> ""]

(***************************************************************************)
(* Threads and names.                                                      *)
(***************************************************************************)
MainThread == <<"M","a","i","n","T","h","r","e","a","d">>
Threads == {"main", "w1", "w2"}
Workers == Threads \ {"main"}
\* threading.current_thread().name of the worker threads: two live threads
\* may carry the same name
WorkerThreadNames == { <<"T","1">>, <<"T","2">> }

\* the base names, emojis and suffixes the callers pass
BaseNames == { <<"s">>, <<"s",".","a">> }
Emojis == { <<>>, <<"*">> }
Suffixes == { <<"w">> }
DefaultLoggerName == <<"s","w","e","-","a","g","e","n","t">>

\* the root logger, logging.getLogger("")
Root == <<>>


(***************************************************************************)
(* State.                                                                  *)
(***************************************************************************)
VARIABLES
    SET_UP_LOGGERS,        \* _SET_UP_LOGGERS: set of logger names
    ADDITIONAL_HANDLERS,   \* _ADDITIONAL_HANDLERS: list of handler objects
    STREAM_LEVEL,          \* _STREAM_LEVEL
    FILE_LEVEL,            \* _FILE_LEVEL
    INCLUDE_LOGGER_NAME_IN_STREAM_HANDLER,
    THREAD_NAME_TO_LOG_SUFFIX,  \* dict: thread name -> suffix
    loggerDict,            \* logging's Logger objects, by name
    handlerObj,            \* the handler objects created so far, by identity
    threadName,            \* thread -> threading.current_thread().name
    pc,                    \* thread -> the line it is about to execute
    local,                 \* thread -> the local variables of its call
    result,                \* the outcome of the call that finished last
    calls,                 \* number of calls made so far
    pure_in,               \* arguments of a function applied on its own
    pure_out,              \* and what it returned
    registeredBy           \* thread -> the suffix that thread registered last
                           \* (history: the module keeps no such record)

vars == << SET_UP_LOGGERS, ADDITIONAL_HANDLERS, STREAM_LEVEL, FILE_LEVEL,
           INCLUDE_LOGGER_NAME_IN_STREAM_HANDLER, THREAD_NAME_TO_LOG_SUFFIX,
           loggerDict, handlerObj, threadName, pc, local, result, calls,
           pure_in, pure_out, registeredBy >>

pure == << pure_in, pure_out >>

registry == << SET_UP_LOGGERS, ADDITIONAL_HANDLERS, STREAM_LEVEL, FILE_LEVEL,
               INCLUDE_LOGGER_NAME_IN_STREAM_HANDLER,
               THREAD_NAME_TO_LOG_SUFFIX, loggerDict, handlerObj >>

(***************************************************************************)
(* Objects.                                                                *)
(***************************************************************************)
\* a logging.Logger as logging.getLogger creates it
NewLogger == [handlers |-> <<>>, level |-> NOTSET, propagate |-> TRUE]

\* _RichHandlerWithEmoji.__init__: the emoji gets a trailing space unless it
\* ends with one
RichHandlerEmoji(emoji) ==
    IF EndsWithSpace(emoji) THEN emoji ELSE emoji \o <<" ">>

\* _RichHandlerWithEmoji(emoji=emoji, ...) followed by handler.setLevel(level)
RichHandlerWithEmoji(emoji, level) ==
    [kind |-> "console", emoji |-> RichHandlerEmoji(emoji), level |-> level,
     fmt |-> "rich", my_filter |-> <<>>]

\* the width of the level column of the console output
LevelTextWidth == 10

\* str.ljust(width): spaces are added on the right up to the width; a longer
\* string is returned as it is
Ljust(s, width) ==
    IF Len(s) >= width THEN s
    ELSE s \o [i \in 1..(width - Len(s)) |-> " "]

\* _RichHandlerWithEmoji.get_level_text(record): the text of the level column
get_level_text(handler, levelname) ==
    Ljust(handler.emoji \o levelname, LevelTextWidth)

\* logging.FileHandler(path) with its formatter and level
FileHandler(level) ==
    [kind |-> "file", emoji |-> <<>>, level |-> level,
     fmt |-> "asctime-levelname-name-message", my_filter |-> <<>>]

\* the locals of a call
NoLocals ==
    [name |-> <<>>, created |-> FALSE, emoji |-> <<>>, handler |-> 0,
     idx |-> 0, iter |-> {}, used |-> 0, filter |-> <<>>]

\* the outcome of a call of thread t: a logger, None or an exception
NoResult ==
    [thread |-> "", op |-> "", kind |-> "none", logger |-> <<>>, exc |-> ""]
Returned(t, name) ==
    [thread |-> t, op |-> "get_logger", kind |-> "return", logger |-> name,
     exc |-> ""]
ReturnedNone(t, op) ==
    [thread |-> t, op |-> op, kind |-> "return", logger |-> <<>>, exc |-> ""]
Raise(t, op, e) ==
    [thread |-> t, op |-> op, kind |-> "raise", logger |-> <<>>, exc |-> e]

(***************************************************************************)
(* logging's logger hierarchy.                                             *)
(***************************************************************************)
\* p is an ancestor of n in the dotted hierarchy (Manager._fixupParents)
IsDottedPrefix(p, n) ==
    /\ Len(p) < Len(n)
    /\ SubSeq(n, 1, Len(p)) = p
    /\ n[Len(p) + 1] = "."

\* logger.parent: the nearest existing ancestor, else the root logger
Parent(dict, n) ==
    LET anc == { p \in DOMAIN dict : IsDottedPrefix(p, n) }
    IN  IF anc = {} THEN Root
        ELSE CHOOSE p \in anc : \A q \in anc : Len(q) <= Len(p)

\* mutant of hasHandlers: the root logger is asked instead of the named logger
hasHandlersOfRoot(dict, n) == FALSE

\* Logger.hasHandlers(): walks up the hierarchy while loggers propagate; the
\* root logger is left without handlers by this module
RECURSIVE hasHandlers(_, _)
hasHandlers(dict, n) ==
    IF n = Root THEN FALSE
    ELSE IF Len(dict[n].handlers) > 0 THEN TRUE
    ELSE IF ~dict[n].propagate THEN FALSE
    ELSE hasHandlers(dict, Parent(dict, n))

\* logging.getLogger(name): the logger is created on first request
getLogger(dict, n) ==
    IF n \in DOMAIN dict THEN dict
    ELSE [k \in DOMAIN dict \cup {n} |-> IF k = n THEN NewLogger ELSE dict[k]]

\* mutant of addHandler: the handler is appended without looking at the list
addHandlerAppend(dict, n, h) ==
    [dict EXCEPT ![n].handlers = Append(@, h)]

\* Logger.addHandler(hdlr): appends unless the handler is already in the list
addHandler(dict, n, h) ==
    IF \E i \in 1..Len(dict[n].handlers) : dict[n].handlers[i] = h
    THEN dict
    ELSE [dict EXCEPT ![n].handlers = Append(@, h)]

\* _add_logger_name_to_stream_handler(logger): every _RichHandlerWithEmoji of
\* the logger gets the "[%(name)s] %(message)s" formatter
add_logger_name_to_stream_handler(objs, dict, n) ==
    [h \in DOMAIN objs |->
        IF /\ \E i \in 1..Len(dict[n].handlers) : dict[n].handlers[i] = h
           /\ objs[h].kind = "console"
        THEN [objs[h] EXCEPT !.fmt = "[name] message"]
        ELSE objs[h]]

\* the name get_logger uses: the base name on the main thread, else the base
\* name, "-" and the suffix registered under the thread's name (the thread's
\* name itself when none is)
EffectiveName(map, tname, base) ==
    IF tname # MainThread
    THEN base \o <<"-">> \o (IF tname \in DOMAIN map THEN map[tname] ELSE tname)
    ELSE base

(***************************************************************************)
(* get_logger(name, emoji), lines 55-81.                                   *)
(***************************************************************************)
\* lines 59-62: the effective name, logging.getLogger(name); `created` records
\* whether logging.getLogger had to create the logger
GetLoggerCall(t, base, emoji) ==
    /\ pc[t] = "idle"
    /\ calls < MaxCalls
    /\ LET name == EffectiveName(THREAD_NAME_TO_LOG_SUFFIX, threadName[t], base)
       IN  /\ loggerDict' = getLogger(loggerDict, name)
           /\ local' = [local EXCEPT ![t] =
                            [NoLocals EXCEPT
                                !.name = name,
                                !.created = (name \notin DOMAIN loggerDict),
                                !.emoji = emoji]]
    /\ pc' = [pc EXCEPT ![t] = "L63"]
    /\ calls' = calls + 1
    /\ UNCHANGED << SET_UP_LOGGERS, ADDITIONAL_HANDLERS, STREAM_LEVEL,
                    FILE_LEVEL, INCLUDE_LOGGER_NAME_IN_STREAM_HANDLER,
                    THREAD_NAME_TO_LOG_SUFFIX, handlerObj, threadName,
                    result >>
    /\ UNCHANGED << pure, registeredBy >>

\* lines 63-65: a logger that has handlers is returned as it is
GetLoggerL63(t) ==
    /\ pc[t] = "L63"
    /\ IF hasHandlers(loggerDict, local[t].name)
       THEN /\ pc' = [pc EXCEPT ![t] = "idle"]
            /\ result' = Returned(t, local[t].name)
            /\ local' = [local EXCEPT ![t] = NoLocals]
       ELSE /\ pc' = [pc EXCEPT ![t] = "L66"]
            /\ UNCHANGED << result, local >>
    /\ UNCHANGED << registry, threadName, calls >>
    /\ UNCHANGED << pure, registeredBy >>

\* lines 66-71: the console handler, at the stream level
GetLoggerL66(t) ==
    /\ pc[t] = "L66"
    /\ handlerObj' = Append(handlerObj,
                            RichHandlerWithEmoji(local[t].emoji, STREAM_LEVEL))
    /\ local' = [local EXCEPT ![t].handler = Len(handlerObj) + 1]
    /\ pc' = [pc EXCEPT ![t] = "L72"]
    /\ UNCHANGED << SET_UP_LOGGERS, ADDITIONAL_HANDLERS, STREAM_LEVEL,
                    FILE_LEVEL, INCLUDE_LOGGER_NAME_IN_STREAM_HANDLER,
                    THREAD_NAME_TO_LOG_SUFFIX, loggerDict, threadName,
                    result, calls >>
    /\ UNCHANGED << pure, registeredBy >>

\* lines 72-74: logger.setLevel(min(_STREAM_LEVEL, _FILE_LEVEL)),
\* logger.addHandler(handler), logger.propagate = False.  No other line reads
\* a logger's level, and hasHandlers looks at a logger's handlers before its
\* propagate flag, so the three writes are one step
GetLoggerL72(t) ==
    /\ pc[t] = "L72"
    /\ LET n == local[t].name
           floor == [loggerDict EXCEPT ![n].level =
                         Min(STREAM_LEVEL, FILE_LEVEL)]
           added == addHandler(floor, n, local[t].handler)
       IN  loggerDict' = [added EXCEPT ![n].propagate = FALSE]
    /\ pc' = [pc EXCEPT ![t] = "L75"]
    /\ UNCHANGED << SET_UP_LOGGERS, ADDITIONAL_HANDLERS, STREAM_LEVEL,
                    FILE_LEVEL, INCLUDE_LOGGER_NAME_IN_STREAM_HANDLER,
                    THREAD_NAME_TO_LOG_SUFFIX, handlerObj, threadName,
                    local, result, calls >>
    /\ UNCHANGED << pure, registeredBy >>

\* line 75: _SET_UP_LOGGERS.add(name)
GetLoggerL75(t) ==
    /\ pc[t] = "L75"
    /\ SET_UP_LOGGERS' = SET_UP_LOGGERS \cup {local[t].name}
    /\ local' = [local EXCEPT ![t].idx = 1]
    /\ pc' = [pc EXCEPT ![t] = "L76"]
    /\ UNCHANGED << ADDITIONAL_HANDLERS, STREAM_LEVEL, FILE_LEVEL,
                    INCLUDE_LOGGER_NAME_IN_STREAM_HANDLER,
                    THREAD_NAME_TO_LOG_SUFFIX, loggerDict, handlerObj,
                    threadName, result, calls >>
    /\ UNCHANGED << pure, registeredBy >>

\* lines 76-78: one iteration over _ADDITIONAL_HANDLERS (a list iterator: it
\* ends when its index has passed the current end of the list)
GetLoggerL76(t) ==
    /\ pc[t] = "L76"
    /\ IF local[t].idx > Len(ADDITIONAL_HANDLERS)
       THEN /\ pc' = [pc EXCEPT ![t] = "L79"]
            /\ UNCHANGED << loggerDict, local >>
       ELSE LET h == ADDITIONAL_HANDLERS[local[t].idx]
            IN  /\ loggerDict' =
                       IF IsSubstring(handlerObj[h].my_filter, local[t].name)
                       THEN addHandler(loggerDict, local[t].name, h)
                       ELSE loggerDict
                /\ local' = [local EXCEPT ![t].idx = @ + 1]
                /\ UNCHANGED pc
    /\ UNCHANGED << SET_UP_LOGGERS, ADDITIONAL_HANDLERS, STREAM_LEVEL,
                    FILE_LEVEL, INCLUDE_LOGGER_NAME_IN_STREAM_HANDLER,
                    THREAD_NAME_TO_LOG_SUFFIX, handlerObj, threadName,
                    result, calls >>
    /\ UNCHANGED << pure, registeredBy >>

\* lines 79-81: the name-prefixed format when the flag is set; return logger
GetLoggerL79(t) ==
    /\ pc[t] = "L79"
    /\ handlerObj' =
           IF INCLUDE_LOGGER_NAME_IN_STREAM_HANDLER
           THEN add_logger_name_to_stream_handler(handlerObj, loggerDict,
                                                  local[t].name)
           ELSE handlerObj
    /\ pc' = [pc EXCEPT ![t] = "idle"]
    /\ result' = Returned(t, local[t].name)
    /\ local' = [local EXCEPT ![t] = NoLocals]
    /\ UNCHANGED << SET_UP_LOGGERS, ADDITIONAL_HANDLERS, STREAM_LEVEL,
                    FILE_LEVEL, INCLUDE_LOGGER_NAME_IN_STREAM_HANDLER,
                    THREAD_NAME_TO_LOG_SUFFIX, loggerDict, threadName,
                    calls >>
    /\ UNCHANGED << pure, registeredBy >>

(***************************************************************************)
(* add_file_handler(path, filter, level), lines 84-101.                    *)
(***************************************************************************)
\* the filters and levels the callers pass; the default level is the value
\* _FILE_LEVEL had when the function was defined
Filters == { <<>>, <<"s",".","a">> }
LevelArgs == { StrSpec(<<"1">>), StrSpec(<<"b","o","g","u","s">>) }

\* mutant of FileHandlerLevel: a level that cannot be resolved is replaced by
\* the default instead of being raised
FileHandlerLevelOrDefault(level) ==
    LET r == interpret_level(level, DEBUG)
    IN  IF r.kind = "int" THEN r ELSE IntResult(DEBUG)

\* handler.setLevel(level) of a handler object: logging._checkLevel accepts
\* an int and rejects any other object
FileHandlerLevel(level) ==
    LET r == interpret_level(level, DEBUG)
    IN  IF r.kind = "object" THEN Raised("ValueError") ELSE r

\* lines 91-95: the file is opened, the level resolved, and the iteration over
\* _SET_UP_LOGGERS begins; a failure of either of the first two is raised
AddFileHandlerCall(t, openable, filter, level) ==
    /\ pc[t] = "idle"
    /\ calls < MaxCalls
    /\ calls' = calls + 1
    /\ LET r == FileHandlerLevel(level)
       IN  IF ~openable \/ r.kind = "raise"
           THEN /\ result' = Raise(t, "add_file_handler",
                                     IF ~openable THEN "OSError" ELSE r.exc)
                /\ UNCHANGED << handlerObj, local, pc >>
           ELSE /\ handlerObj' = Append(handlerObj, FileHandler(r.val))
                /\ local' = [local EXCEPT ![t] =
                                 [NoLocals EXCEPT
                                     !.handler = Len(handlerObj) + 1,
                                     !.filter = filter,
                                     !.iter = SET_UP_LOGGERS,
                                     !.used = Cardinality(SET_UP_LOGGERS)]]
                /\ pc' = [pc EXCEPT ![t] = "L95"]
                /\ UNCHANGED result
    /\ UNCHANGED << SET_UP_LOGGERS, ADDITIONAL_HANDLERS, STREAM_LEVEL,
                    FILE_LEVEL, INCLUDE_LOGGER_NAME_IN_STREAM_HANDLER,
                    THREAD_NAME_TO_LOG_SUFFIX, loggerDict, threadName >>
    /\ UNCHANGED << pure, registeredBy >>

\* mutant of AttachIfMatching: the filter must be the whole name
AttachIfNameIsFilter(dict, name, filter, h) ==
    IF filter # <<>> /\ filter # name
    THEN dict
    ELSE addHandler(getLogger(dict, name), name, h)

\* the loggers an iteration of lines 95-99 leaves, having drawn `name`
AttachIfMatching(dict, name, filter, h) ==
    IF filter # <<>> /\ ~IsSubstring(filter, name)
    THEN dict
    ELSE addHandler(getLogger(dict, name), name, h)

\* lines 95-99: one step of the set iterator and the loop body.  The iterator
\* raises RuntimeError when the set has changed size since the iteration
\* began, ends when every name has been drawn, and else draws some name not
\* drawn yet (a set has no order)
AddFileHandlerL95(t) ==
    /\ pc[t] = "L95"
    /\ IF Cardinality(SET_UP_LOGGERS) # local[t].used
       THEN /\ pc' = [pc EXCEPT ![t] = "idle"]
            /\ result' = Raise(t, "add_file_handler", "RuntimeError")
            /\ local' = [local EXCEPT ![t] = NoLocals]
            /\ UNCHANGED loggerDict
       ELSE IF local[t].iter = {}
       THEN /\ pc' = [pc EXCEPT ![t] = "L100"]
            /\ UNCHANGED << result, local, loggerDict >>
       ELSE \E name \in local[t].iter :
               /\ loggerDict' = AttachIfMatching(loggerDict, name,
                                                 local[t].filter,
                                                 local[t].handler)
               /\ local' = [local EXCEPT ![t].iter = @ \ {name}]
               /\ UNCHANGED << pc, result >>
    /\ UNCHANGED << SET_UP_LOGGERS, ADDITIONAL_HANDLERS, STREAM_LEVEL,
                    FILE_LEVEL, INCLUDE_LOGGER_NAME_IN_STREAM_HANDLER,
                    THREAD_NAME_TO_LOG_SUFFIX, handlerObj, threadName, calls >>
    /\ UNCHANGED << pure, registeredBy >>

\* mutant of AddFileHandlerL100: the handler is put at the head of
\* _ADDITIONAL_HANDLERS
AddFileHandlerL100AtHead(t) ==
    /\ pc[t] = "L100"
    /\ handlerObj' = [handlerObj EXCEPT
                          ![local[t].handler].my_filter = local[t].filter]
    /\ ADDITIONAL_HANDLERS' = << local[t].handler >> \o ADDITIONAL_HANDLERS
    /\ pc' = [pc EXCEPT ![t] = "idle"]
    /\ result' = ReturnedNone(t, "add_file_handler")
    /\ local' = [local EXCEPT ![t] = NoLocals]
    /\ UNCHANGED << SET_UP_LOGGERS, STREAM_LEVEL, FILE_LEVEL,
                    INCLUDE_LOGGER_NAME_IN_STREAM_HANDLER,
                    THREAD_NAME_TO_LOG_SUFFIX, loggerDict, threadName, calls >>
    /\ UNCHANGED << pure, registeredBy >>

\* lines 100-101: handler.my_filter = filter; the handler joins
\* _ADDITIONAL_HANDLERS; the function returns None
AddFileHandlerL100(t) ==
    /\ pc[t] = "L100"
    /\ handlerObj' = [handlerObj EXCEPT
                          ![local[t].handler].my_filter = local[t].filter]
    /\ ADDITIONAL_HANDLERS' = Append(ADDITIONAL_HANDLERS, local[t].handler)
    /\ pc' = [pc EXCEPT ![t] = "idle"]
    /\ result' = ReturnedNone(t, "add_file_handler")
    /\ local' = [local EXCEPT ![t] = NoLocals]
    /\ UNCHANGED << SET_UP_LOGGERS, STREAM_LEVEL, FILE_LEVEL,
                    INCLUDE_LOGGER_NAME_IN_STREAM_HANDLER,
                    THREAD_NAME_TO_LOG_SUFFIX, loggerDict, threadName, calls >>
    /\ UNCHANGED << pure, registeredBy >>

(***************************************************************************)
(* add_logger_names_to_stream_handlers(), lines 111-116.                   *)
(***************************************************************************)
\* lines 114-115: the flag is set and the iteration over _SET_UP_LOGGERS begins
AddLoggerNamesCall(t) ==
    /\ pc[t] = "idle"
    /\ calls < MaxCalls
    /\ calls' = calls + 1
    /\ INCLUDE_LOGGER_NAME_IN_STREAM_HANDLER' = TRUE
    /\ local' = [local EXCEPT ![t] =
                     [NoLocals EXCEPT !.iter = SET_UP_LOGGERS,
                                      !.used = Cardinality(SET_UP_LOGGERS)]]
    /\ pc' = [pc EXCEPT ![t] = "L115"]
    /\ UNCHANGED << SET_UP_LOGGERS, ADDITIONAL_HANDLERS, STREAM_LEVEL,
                    FILE_LEVEL, THREAD_NAME_TO_LOG_SUFFIX, loggerDict,
                    handlerObj, threadName, result >>
    /\ UNCHANGED << pure, registeredBy >>

\* lines 115-116: one step of the set iterator and the loop body
AddLoggerNamesL115(t) ==
    /\ pc[t] = "L115"
    /\ IF Cardinality(SET_UP_LOGGERS) # local[t].used
       THEN /\ pc' = [pc EXCEPT ![t] = "idle"]
            /\ result' = Raise(t, "add_logger_names_to_stream_handlers",
                            "RuntimeError")
            /\ local' = [local EXCEPT ![t] = NoLocals]
            /\ UNCHANGED handlerObj
       ELSE IF local[t].iter = {}
       THEN /\ pc' = [pc EXCEPT ![t] = "idle"]
            /\ result' = ReturnedNone(t, "add_logger_names_to_stream_handlers")
            /\ local' = [local EXCEPT ![t] = NoLocals]
            /\ UNCHANGED handlerObj
       ELSE \E name \in local[t].iter :
               /\ handlerObj' = add_logger_name_to_stream_handler(
                                     handlerObj, loggerDict, name)
               /\ local' = [local EXCEPT ![t].iter = @ \ {name}]
               /\ UNCHANGED << pc, result >>
    /\ UNCHANGED << SET_UP_LOGGERS, ADDITIONAL_HANDLERS, STREAM_LEVEL,
                    FILE_LEVEL, INCLUDE_LOGGER_NAME_IN_STREAM_HANDLER,
                    THREAD_NAME_TO_LOG_SUFFIX, loggerDict, threadName, calls >>
    /\ UNCHANGED << pure, registeredBy >>

(***************************************************************************)
(* set_default_stream_level(level), lines 122-125, and                     *)
(* register_thread_name(name), lines 36-39.                                *)
(***************************************************************************)
StreamLevelArgs == { TRACE, WARNING }

\* mutant of set_default_stream_level: the console handlers that exist are
\* set to the new level too
set_default_stream_level_retroactive(t, level) ==
    /\ pc[t] = "idle"
    /\ calls < MaxCalls
    /\ calls' = calls + 1
    /\ STREAM_LEVEL' = level
    /\ handlerObj' = [h \in DOMAIN handlerObj |->
                         IF handlerObj[h].kind = "console"
                         THEN [handlerObj[h] EXCEPT !.level = level]
                         ELSE handlerObj[h]]
    /\ result' = ReturnedNone(t, "set_default_stream_level")
    /\ UNCHANGED << SET_UP_LOGGERS, ADDITIONAL_HANDLERS, FILE_LEVEL,
                    INCLUDE_LOGGER_NAME_IN_STREAM_HANDLER,
                    THREAD_NAME_TO_LOG_SUFFIX, loggerDict, threadName, pc,
                    local >>
    /\ UNCHANGED << pure, registeredBy >>

set_default_stream_level(t, level) ==
    /\ pc[t] = "idle"
    /\ calls < MaxCalls
    /\ calls' = calls + 1
    /\ STREAM_LEVEL' = level
    /\ result' = ReturnedNone(t, "set_default_stream_level")
    /\ UNCHANGED << SET_UP_LOGGERS, ADDITIONAL_HANDLERS, FILE_LEVEL,
                    INCLUDE_LOGGER_NAME_IN_STREAM_HANDLER,
                    THREAD_NAME_TO_LOG_SUFFIX, loggerDict, handlerObj,
                    threadName, pc, local >>
    /\ UNCHANGED << pure, registeredBy >>

\* dict[key] = value
DictSet(map, key, value) ==
    [k \in DOMAIN map \cup {key} |-> IF k = key THEN value ELSE map[k]]

register_thread_name(t, name) ==
    /\ pc[t] = "idle"
    /\ calls < MaxCalls
    /\ calls' = calls + 1
    /\ THREAD_NAME_TO_LOG_SUFFIX' =
           DictSet(THREAD_NAME_TO_LOG_SUFFIX, threadName[t], name)
    /\ result' = ReturnedNone(t, "register_thread_name")
    /\ UNCHANGED << SET_UP_LOGGERS, ADDITIONAL_HANDLERS, STREAM_LEVEL,
                    FILE_LEVEL, INCLUDE_LOGGER_NAME_IN_STREAM_HANDLER,
                    loggerDict, handlerObj, threadName, pc, local >>
    /\ registeredBy' = DictSet(registeredBy, t, name)
    /\ UNCHANGED pure

(***************************************************************************)
(* The state once the module has been imported (on the main thread): the   *)
(* two thresholds are read from the environment and lines 11-32 set the    *)
(* registries; line 119 has configured the logger "swe-agent".             *)
(***************************************************************************)
\* SWE_AGENT_LOG_STREAM_LEVEL and SWE_AGENT_LOG_FILE_LEVEL
EnvStreamLevels == { NoneSpec }
EnvFileLevels == { NoneSpec }

InitRegistry ==
    \E es \in EnvStreamLevels, ef \in EnvFileLevels :
        LET sl == interpret_level(es, DEBUG).val
            fl == interpret_level(ef, TRACE).val
        IN  /\ STREAM_LEVEL = sl
            /\ FILE_LEVEL = fl
            /\ INCLUDE_LOGGER_NAME_IN_STREAM_HANDLER = FALSE
            /\ THREAD_NAME_TO_LOG_SUFFIX = << >>
            /\ ADDITIONAL_HANDLERS = << >>
            /\ handlerObj = << RichHandlerWithEmoji(<<>>, sl) >>
            /\ loggerDict = [n \in {DefaultLoggerName} |->
                                [handlers |-> <<1>>, level |-> Min(sl, fl),
                                 propagate |-> FALSE]]
            /\ SET_UP_LOGGERS = {DefaultLoggerName}
            /\ threadName \in { f \in [Threads -> WorkerThreadNames
                                                    \cup {MainThread}] :
                                  /\ f["main"] = MainThread
                                  /\ f["w1"] = <<"T","1">>
                                  /\ f["w2"] \in WorkerThreadNames }
            /\ pc = [t \in Threads |-> "idle"]
            /\ local = [t \in Threads |-> NoLocals]
            /\ result = NoResult
            /\ calls = 0
            /\ registeredBy = << >>

Init == InitRegistry /\ pure_in = NoCall /\ pure_out = NoReturn

(***************************************************************************)
(* Specifications: threads interleave line by line (Spec), or every call   *)
(* runs to its end before the next begins (SeqSpec).                       *)
(***************************************************************************)
\* get_logger and register_thread_name depend on the calling thread; the other
\* three functions do not read it, and the main thread is the one to call them
AdminThread == "main"

Call(t) ==
    \/ \E base \in BaseNames, emoji \in Emojis : GetLoggerCall(t, base, emoji)
    \/ \E name \in Suffixes : register_thread_name(t, name)

AdminCall ==
    \/ \E openable \in BOOLEAN, filter \in Filters,
          level \in LevelArgs \cup {IntSpec(FILE_LEVEL)} :
            AddFileHandlerCall(AdminThread, openable, filter, level)
    \/ AddLoggerNamesCall(AdminThread)
    \/ \E level \in StreamLevelArgs :
            set_default_stream_level(AdminThread, level)

Step(t) ==
    \/ GetLoggerL63(t)
    \/ GetLoggerL66(t)
    \/ GetLoggerL72(t)
    \/ GetLoggerL75(t)
    \/ GetLoggerL76(t)
    \/ GetLoggerL79(t)
    \/ AddFileHandlerL95(t)
    \/ AddFileHandlerL100(t)
    \/ AddLoggerNamesL115(t)

AllIdle == \A t \in Threads : pc[t] = "idle"

Next ==
    \/ \E t \in Threads : Call(t) \/ Step(t)
    \/ AdminCall

SeqNext ==
    \/ \E t \in Threads : Step(t)
    \/ AllIdle /\ \E t \in Threads, base \in BaseNames, emoji \in Emojis :
                     GetLoggerCall(t, base, emoji)
    \/ AllIdle /\ \E t \in Threads, name \in Suffixes :
                     register_thread_name(t, name)
    \/ AllIdle /\ \E openable \in BOOLEAN, filter \in Filters,
                     level \in LevelArgs \cup {IntSpec(FILE_LEVEL)} :
                     AddFileHandlerCall(AdminThread, openable, filter, level)
    \/ AllIdle /\ AddLoggerNamesCall(AdminThread)
    \/ AllIdle /\ \E level \in StreamLevelArgs :
                     set_default_stream_level(AdminThread, level)

Spec == Init /\ [][Next]_vars

SeqSpec == Init /\ [][SeqNext]_vars

(***************************************************************************)
(* _interpret_level applied on its own (PureSpec): the arguments are drawn *)
(* in the initial state, one step applies the function.                    *)
(***************************************************************************)
\* digit strings with the integer each denotes
DigitStrings ==
    { << <<"5">>, 5 >>, << <<"0">>, 0 >>, << <<"1","0">>, 10 >>,
      << <<"0","0","7">>, 7 >>, << <<"4","2">>, 42 >>,
      << <<"1","2","5">>, 125 >> }

\* the six level names with their severities
SeverityNames ==
    { << <<"T","R","A","C","E">>, 5 >>,
      << <<"D","E","B","U","G">>, 10 >>,
      << <<"I","N","F","O">>, 20 >>,
      << <<"W","A","R","N","I","N","G">>, 30 >>,
      << <<"E","R","R","O","R">>, 40 >>,
      << <<"C","R","I","T","I","C","A","L">>, 50 >> }

\* the lower-case letter of an upper-case one
LowerOf(c) ==
    IF \E i \in 1..Len(UpperChars) : UpperChars[i] = c
    THEN LowerChars[CHOOSE i \in 1..Len(UpperChars) : UpperChars[i] = c]
    ELSE c

\* an upper-case name written in four letter cases
CaseVariants(s) ==
    { s,
      [i \in 1..Len(s) |-> LowerOf(s[i])],
      [i \in 1..Len(s) |-> IF i = 1 THEN s[i] ELSE LowerOf(s[i])],
      [i \in 1..Len(s) |-> IF i % 2 = 0 THEN s[i] ELSE LowerOf(s[i])] }

\* strings that are neither digits nor one of the six names
OtherStrings ==
    { <<"b","o","g","u","s">>, <<"w","a","r","n">>, <<"F","A","T","A","L">>,
      <<"n","o","t","s","e","t">>, <<"D","E","B","U","G"," ">>,
      <<"b","a","s","i","c","_","f","o","r","m","a","t">>, <<"1","0","x">>,
      <<"-","5">> }

PureLevels ==
    { NoneSpec, StrSpec(<<>>), IntSpec(0), IntSpec(5), IntSpec(25) }
    \cup { StrSpec(d[1]) : d \in DigitStrings }
    \cup UNION { { StrSpec(v) : v \in CaseVariants(p[1]) } : p \in SeverityNames }
    \cup { StrSpec(o) : o \in OtherStrings }

\* the defaults the module passes (lines 18 and 29), and one more
PureDefaults == { DEBUG, TRACE, 7 }

\* the emojis given to get_logger, and the level names of the records
PureEmojis == { <<>>, <<"*">>, <<"*"," ">>, <<"*","\t">>, <<"*","*","*">> }
LevelNames ==
    { <<"T","R","A","C","E">>, <<"I","N","F","O">>,
      <<"W","A","R","N","I","N","G">>, <<"C","R","I","T","I","C","A","L">> }

PureInit ==
    /\ InitRegistry
    /\ threadName["w2"] = threadName["w1"]
    /\ pure_in \in { [fn |-> "interpret_level", level |-> l, default |-> d] :
                       l \in PureLevels, d \in PureDefaults }
                  \cup
                  { [fn |-> "get_level_text", emoji |-> e, levelname |-> n] :
                       e \in PureEmojis, n \in LevelNames }
    /\ pure_out = NoReturn

ApplyInterpretLevel ==
    /\ pure_in.fn = "interpret_level"
    /\ pure_out = NoReturn
    /\ pure_out' = interpret_level(pure_in.level, pure_in.default)
    /\ UNCHANGED << registry, threadName, pc, local, result, calls, pure_in,
                    registeredBy >>

\* a console handler is made with the emoji (lines 66-71) and asked for the
\* level text of a record
ApplyGetLevelText ==
    /\ pure_in.fn = "get_level_text"
    /\ pure_out = NoReturn
    /\ pure_out' =
           [kind |-> "text",
            text |-> get_level_text(
                         RichHandlerWithEmoji(pure_in.emoji, STREAM_LEVEL),
                         pure_in.levelname)]
    /\ UNCHANGED << registry, threadName, pc, local, result, calls, pure_in,
                    registeredBy >>

PureNext == ApplyInterpretLevel \/ ApplyGetLevelText

PureSpec == PureInit /\ [][PureNext]_vars

(***************************************************************************)
(* Vocabulary of the properties.                                           *)
(***************************************************************************)
\* handler h is in the handler list of logger n
Attached(dict, n, h) ==
    \E i \in 1..Len(dict[n].handlers) : dict[n].handlers[i] = h

\* the positions of logger n's handler list that hold a console handler
ConsolePositions(n) ==
    { i \in 1..Len(loggerDict[n].handlers) :
        handlerObj[loggerDict[n].handlers[i]].kind = "console" }

\* the console handlers of logger n
ConsoleHandlersOf(n) ==
    { loggerDict[n].handlers[i] : i \in ConsolePositions(n) }

\* filter f selects the name n
Matches(f, n) == f = <<>> \/ IsSubstring(f, n)

(***************************************************************************)
(* C1.  When several threads call get_logger at the same time for the same *)
(* effective name, the logger never holds more than one console handler,   *)
(* and a configured logger holds exactly one once every call has returned. *)
(***************************************************************************)
C1_OneConsoleHandler ==
    \A n \in DOMAIN loggerDict :
        /\ Cardinality(ConsolePositions(n)) <= 1
        /\ (AllIdle /\ n \in SET_UP_LOGGERS)
              => Cardinality(ConsolePositions(n)) = 1

(***************************************************************************)
(* C2.  Calls made one after the other: a get_logger call whose effective  *)
(* name is already in _SET_UP_LOGGERS changes nothing.  Its first step     *)
(* finds the logger, its second returns that logger, and neither changes   *)
(* the logger's handlers (still one console handler), level or propagate   *)
(* flag, any handler object (emoji, level, format), _SET_UP_LOGGERS,       *)
(* _ADDITIONAL_HANDLERS or the thresholds, whatever emoji is passed and    *)
(* whatever the stream level is by then.                                   *)
(***************************************************************************)
C2_ConfiguredCallIsNoOp ==
    [][\A t \in Threads :
          /\ (pc[t] = "idle" /\ pc'[t] = "L63"
                /\ local'[t].name \in SET_UP_LOGGERS)
                => UNCHANGED registry
          /\ (pc[t] = "L63" /\ pc'[t] # "L63"
                /\ local[t].name \in SET_UP_LOGGERS)
                => /\ pc'[t] = "idle"
                   /\ result' = Returned(t, local[t].name)
                   /\ Cardinality(ConsolePositions(local[t].name)) = 1
                   /\ UNCHANGED registry]_vars

\* a get_logger call has just returned a logger whose console handler was
\* made at another stream level than the present one: the logger was
\* configured before the level was changed, and requested again after
C2_SecondCallReturned ==
    /\ AllIdle
    /\ result.op = "get_logger" /\ result.kind = "return"
    /\ result.logger \in SET_UP_LOGGERS
    /\ \E h \in ConsoleHandlersOf(result.logger) :
           handlerObj[h].level # STREAM_LEVEL

(***************************************************************************)
(* C3.  Calls made one after the other: when add_file_handler(path,        *)
(* filter) succeeds, the new handler is attached to exactly the loggers of *)
(* _SET_UP_LOGGERS whose name contains the filter (all of them when the    *)
(* filter is empty) and to no other logger, and the handler, carrying the  *)
(* filter, is the last entry of _ADDITIONAL_HANDLERS.                      *)
(***************************************************************************)
C3_AttachesExactlyMatching ==
    [][\A t \in Threads :
          (pc[t] = "L100" /\ pc'[t] = "idle")
          => LET h == local[t].handler
                 f == local[t].filter
             IN  /\ \A n \in DOMAIN loggerDict' :
                        Attached(loggerDict', n, h)
                            <=> (n \in SET_UP_LOGGERS /\ Matches(f, n))
                 /\ Len(ADDITIONAL_HANDLERS') = Len(ADDITIONAL_HANDLERS) + 1
                 /\ ADDITIONAL_HANDLERS'[Len(ADDITIONAL_HANDLERS')] = h
                 /\ handlerObj'[h].my_filter = f
                 /\ result' = ReturnedNone(t, "add_file_handler")]_vars

\* add_file_handler has just returned, and its handler is attached to one
\* configured logger and not to another
C3_AttachedToSomeNotAll ==
    /\ AllIdle
    /\ result.op = "add_file_handler" /\ result.kind = "return"
    /\ LET h == ADDITIONAL_HANDLERS[Len(ADDITIONAL_HANDLERS)]
       IN  \E n, m \in SET_UP_LOGGERS :
               Attached(loggerDict, n, h) /\ ~Attached(loggerDict, m, h)

(***************************************************************************)
(* C4.  Calls made one after the other: when get_logger returns a logger   *)
(* for a name that was not requested before, every handler h registered by *)
(* add_file_handler with filter f is attached to that logger if and only   *)
(* if f is empty or a substring of the effective name, dotted names        *)
(* included.                                                               *)
(***************************************************************************)
C4_NewLoggerGetsMatchingHandlers ==
    [][\A t \in Threads :
          (pc[t] \in {"L63", "L79"} /\ pc'[t] = "idle" /\ local[t].created)
          => \A i \in 1..Len(ADDITIONAL_HANDLERS) :
                LET h == ADDITIONAL_HANDLERS[i]
                IN  Attached(loggerDict', local[t].name, h)
                        <=> Matches(handlerObj[h].my_filter, local[t].name)]_vars

(***************************************************************************)
(* C5.  Every logger get_logger returns has propagation to its parent      *)
(* disabled, has a console handler of its own, and has its name in         *)
(* _SET_UP_LOGGERS, whatever calls came before (a call for a dotted        *)
(* ancestor of the name included).                                         *)
(***************************************************************************)
C5_ReturnedLoggerIsConfigured ==
    (result.op = "get_logger" /\ result.kind = "return")
    => /\ ~loggerDict[result.logger].propagate
       /\ ConsolePositions(result.logger) # {}
       /\ result.logger \in SET_UP_LOGGERS

(***************************************************************************)
(* C6.  The stream threshold never increases: no step of any call leaves   *)
(* _STREAM_LEVEL greater than it was.                                      *)
(***************************************************************************)
C6_ThresholdNeverRaised == [][STREAM_LEVEL' <= STREAM_LEVEL]_vars

(***************************************************************************)
(* C7.  set_default_stream_level changes the stream threshold and nothing  *)
(* else: no logger (handlers, level, propagate flag), no handler object    *)
(* (level, format, emoji), not _SET_UP_LOGGERS, not _ADDITIONAL_HANDLERS.  *)
(* A logger configured afterwards (calls made one after the other) has a   *)
(* console handler whose level is the threshold of that moment.            *)
(***************************************************************************)
C7_OnlyThresholdChanges ==
    [][/\ (\E t \in Threads, level \in StreamLevelArgs :
               set_default_stream_level(t, level))
          => /\ UNCHANGED << loggerDict, handlerObj, SET_UP_LOGGERS,
                             ADDITIONAL_HANDLERS, FILE_LEVEL,
                             INCLUDE_LOGGER_NAME_IN_STREAM_HANDLER >>
             /\ STREAM_LEVEL' \in StreamLevelArgs
       /\ \A t \in Threads :
             (pc[t] = "L79" /\ pc'[t] = "idle")
             => /\ ConsoleHandlersOf(local[t].name) # {}
                /\ \A h \in ConsoleHandlersOf(local[t].name) :
                       handlerObj'[h].level = STREAM_LEVEL]_vars

\* get_logger has just configured a logger at the present threshold, while an
\* older logger keeps a console handler made at another threshold
C7_NewLoggerAtNewThreshold ==
    /\ AllIdle
    /\ result.op = "get_logger" /\ result.kind = "return"
    /\ result.logger \in SET_UP_LOGGERS
    /\ \A h \in ConsoleHandlersOf(result.logger) :
           handlerObj[h].level = STREAM_LEVEL
    /\ \E m \in SET_UP_LOGGERS : \E k \in ConsoleHandlersOf(m) :
           handlerObj[k].level # STREAM_LEVEL

(***************************************************************************)
(* C8.  When add_file_handler fails because the path cannot be opened or   *)
(* the level cannot be resolved, the caller gets the exception and the     *)
(* registry is as before: no logger, no handler object, _SET_UP_LOGGERS    *)
(* and _ADDITIONAL_HANDLERS are unchanged.                                 *)
(***************************************************************************)
C8_FailedAddChangesNothing ==
    [][\A t \in {AdminThread} :
          (pc[t] = "idle" /\ calls' = calls + 1)
          => \A openable \in BOOLEAN, level \in LevelArgs \cup {IntSpec(FILE_LEVEL)} :
                (~openable \/ interpret_level(level, DEBUG).kind # "int")
                => \A filter \in Filters :
                      AddFileHandlerCall(t, openable, filter, level)
                      => /\ result'.kind = "raise" /\ result'.thread = t
                         /\ result'.op = "add_file_handler"
                         /\ pc'[t] = "idle"
                         /\ UNCHANGED << loggerDict, handlerObj,
                                         SET_UP_LOGGERS, ADDITIONAL_HANDLERS >>]_vars

\* add_file_handler has just raised for an unresolvable level, with two
\* loggers configured it could have attached a handler to
C8_AddFailed ==
    /\ AllIdle
    /\ result.op = "add_file_handler" /\ result.kind = "raise"
    /\ result.exc = "AttributeError"
    /\ Cardinality(SET_UP_LOGGERS) >= 2

(***************************************************************************)
(* C9.  Once add_logger_names_to_stream_handlers has been called and no    *)
(* call is in progress any more, every console handler of every logger of  *)
(* _SET_UP_LOGGERS has the name-prefixed format, however the call was      *)
(* interleaved with get_logger calls; and the flag, once set, stays set.   *)
(***************************************************************************)
AllPrefixed ==
    \A n \in SET_UP_LOGGERS : \A h \in ConsoleHandlersOf(n) :
        handlerObj[h].fmt = "[name] message"

C9_AllPrefixedOnceEnabled ==
    (INCLUDE_LOGGER_NAME_IN_STREAM_HANDLER /\ AllIdle) => AllPrefixed

(***************************************************************************)
(* C10.  _interpret_level(level, default) returns the default when the     *)
(* level is absent (None or the empty string), the integer written when    *)
(* the level is a string of decimal digits, and the severity of the name   *)
(* (TRACE 5, DEBUG 10, INFO 20, WARNING 30, ERROR 40, CRITICAL 50) when    *)
(* the level is one of the six names in any letter case.                   *)
(***************************************************************************)
\* s is the upper-case name u in some letter case
SameName(s, u) ==
    /\ Len(s) = Len(u)
    /\ \A i \in 1..Len(u) : s[i] = u[i] \/ s[i] = LowerOf(u[i])

C10_Resolve ==
    (pure_in.fn = "interpret_level" /\ pure_out # NoReturn)
    => LET l == pure_in.level
       IN  /\ (l.t = "none" \/ (l.t = "str" /\ l.s = <<>>))
                 => pure_out = IntResult(pure_in.default)
           /\ \A d \in DigitStrings :
                 (l.t = "str" /\ l.s = d[1]) => pure_out = IntResult(d[2])
           /\ \A p \in SeverityNames :
                 (l.t = "str" /\ SameName(l.s, p[1]))
                     => pure_out = IntResult(p[2])

\* a name written in mixed case has been resolved, with a default that is not
\* its severity
C10_MixedCaseResolved ==
    /\ pure_in.fn = "interpret_level"
    /\ pure_in.level = StrSpec(<<"w","A","r","N","i","N","g">>)
    /\ pure_in.default = TRACE
    /\ pure_out = IntResult(30)

(***************************************************************************)
(* C11.  For every non-empty string that is not a string of digits and is  *)
(* not one of TRACE, DEBUG, INFO, WARNING, ERROR, CRITICAL in any letter   *)
(* case, _interpret_level raises: it returns no value, neither the default *)
(* nor an integer nor any other object.                                    *)
(***************************************************************************)
C11_UnknownNameFails ==
    (pure_in.fn = "interpret_level" /\ pure_out # NoReturn)
    => LET l == pure_in.level
       IN  (/\ l.t = "str" /\ l.s # <<>> /\ ~IsNumeric(l.s)
            /\ \A p \in SeverityNames : ~SameName(l.s, p[1]))
           => pure_out.kind = "raise"

(***************************************************************************)
(* C12.  The name get_logger(base) uses is base itself when the caller is  *)
(* the main thread (whether or not the main thread registered a suffix),   *)
(* base, "-" and s when the caller is another thread whose last            *)
(* registration was the suffix s, and base, "-" and the thread's own name  *)
(* when the caller is another thread that never registered a suffix.       *)
(***************************************************************************)
\* the name the calling thread t is to get for base
NameOfCaller(t, base) ==
    IF t = "main" THEN base
    ELSE IF t \in DOMAIN registeredBy
         THEN base \o <<"-">> \o registeredBy[t]
         ELSE base \o <<"-">> \o threadName[t]

C12_EffectiveNameOfCaller ==
    [][\A t \in Threads :
          (pc[t] = "idle" /\ pc'[t] = "L63")
          => \A base \in BaseNames, emoji \in Emojis :
                GetLoggerCall(t, base, emoji)
                => local'[t].name = NameOfCaller(t, base)]_vars

(***************************************************************************)
(* C13.  The level text of the console output is the emoji part followed   *)
(* by the level name, padded with spaces to width 10; the emoji part is    *)
(* the emoji itself when the emoji is empty or ends in whitespace, and the *)
(* emoji and one space otherwise.  With the empty emoji the text begins    *)
(* with the level name: it has no leading space.                           *)
(***************************************************************************)
IsWhitespace(c) == c \in {" ", "\t", "\n"}

\* text is base, followed by spaces up to the width when base is shorter
PaddedTo(text, base, width) ==
    /\ Len(text) = (IF Len(base) >= width THEN Len(base) ELSE width)
    /\ SubSeq(text, 1, Len(base)) = base
    /\ \A i \in (Len(base) + 1)..Len(text) : text[i] = " "

C13_LevelText ==
    (pure_in.fn = "get_level_text" /\ pure_out # NoReturn)
    => LET e == pure_in.emoji
           part == IF e = <<>> \/ IsWhitespace(e[Len(e)])
                   THEN e ELSE e \o <<" ">>
       IN  /\ pure_out.kind = "text"
           /\ PaddedTo(pure_out.text, part \o pure_in.levelname, 10)
           /\ e = <<>> => pure_out.text[1] # " "

(***************************************************************************)
(* C14.  When add_file_handler(path, filter) runs at the same time as      *)
(* get_logger for a new name the filter selects, the logger has the file   *)
(* handler attached once both calls have returned, however their steps     *)
(* interleave: add_file_handler is not ended by an error because           *)
(* _SET_UP_LOGGERS grew during its loop, and no configured logger selected *)
(* by the filter of a handler in _ADDITIONAL_HANDLERS is left without it.  *)
(***************************************************************************)
C14_ConcurrentAddReachesNewLogger ==
    /\ ~(result.op = "add_file_handler" /\ result.kind = "raise"
           /\ result.exc = "RuntimeError")
    /\ AllIdle
         => \A i \in 1..Len(ADDITIONAL_HANDLERS) : \A n \in SET_UP_LOGGERS :
               LET h == ADDITIONAL_HANDLERS[i]
               IN  Matches(handlerObj[h].my_filter, n)
                       => Attached(loggerDict, n, h)

(***************************************************************************)
(* C15.  For every logger of _SET_UP_LOGGERS, in every state reached by    *)
(* get_logger, add_file_handler (whatever level is passed) and             *)
(* set_default_stream_level calls, the logger's own level is less than or  *)
(* equal to the level of every handler attached to it: the logger lets     *)
(* through every record one of its handlers would accept.                  *)
(***************************************************************************)
C15_FloorBelowHandlerLevels ==
    \A n \in SET_UP_LOGGERS :
        \A i \in 1..Len(loggerDict[n].handlers) :
            loggerDict[n].level <= handlerObj[loggerDict[n].handlers[i]].level

(***************************************************************************)
(* C16.  A file handler is never in the handler list of a logger more than *)
(* once, however add_file_handler and get_logger interleave: when the loop *)
(* of add_file_handler has attached a handler to a logger and the scan of  *)
(* _ADDITIONAL_HANDLERS in get_logger comes to the same handler for the    *)
(* same logger, the list still holds the handler once.                     *)
(***************************************************************************)
C16_FileHandlerAttachedOnce ==
    \A n \in DOMAIN loggerDict :
        \A i, j \in 1..Len(loggerDict[n].handlers) :
            (/\ handlerObj[loggerDict[n].handlers[i]].kind = "file"
             /\ loggerDict[n].handlers[i] = loggerDict[n].handlers[j])
            => i = j

\* the one get_logger call in progress is in its scan, at a handler its logger
\* already has: add_file_handler, the only other call made, attached it
C16_ScanAtAttachedHandler ==
    /\ calls = 2
    /\ \E t \in Threads :
          /\ pc[t] = "L76"
          /\ \A u \in Threads \ {t} : pc[u] = "idle"
          /\ local[t].idx <= Len(ADDITIONAL_HANDLERS)
          /\ LET h == ADDITIONAL_HANDLERS[local[t].idx]
             IN  /\ Matches(handlerObj[h].my_filter, local[t].name)
                 /\ Attached(loggerDict, local[t].name, h)

(***************************************************************************)
(* C17.  register_thread_name called by one thread never changes the name  *)
(* get_logger computes for another thread: for any two distinct threads,   *)
(* even two that carry the same thread name, a registration by the first   *)
(* leaves the effective name of the second, for every base name, as it     *)
(* was.                                                                    *)
(***************************************************************************)
C17_RegistrationIsPerThread ==
    [][\A t1 \in Threads :
          (/\ calls' = calls + 1
           /\ result' = ReturnedNone(t1, "register_thread_name")
           /\ \E name \in Suffixes : register_thread_name(t1, name))
          => \A t2 \in Threads \ {t1} : \A base \in BaseNames :
                EffectiveName(THREAD_NAME_TO_LOG_SUFFIX', threadName[t2], base)
                  = EffectiveName(THREAD_NAME_TO_LOG_SUFFIX, threadName[t2],
                                  base)]_vars

(***************************************************************************)
(* C18.  _ADDITIONAL_HANDLERS and _SET_UP_LOGGERS only grow: across every  *)
(* step of every function (get_logger, add_file_handler,                   *)
(* add_logger_names_to_stream_handlers, set_default_stream_level,          *)
(* register_thread_name) the list before the step is a prefix of the list  *)
(* after it, nothing removed or reordered, and the set before the step is  *)
(* a subset of the set after it.                                           *)
(***************************************************************************)
IsPrefix(s, u) == Len(s) <= Len(u) /\ SubSeq(u, 1, Len(s)) = s

C18_RegistriesOnlyGrow ==
    [][/\ IsPrefix(ADDITIONAL_HANDLERS, ADDITIONAL_HANDLERS')
       /\ SET_UP_LOGGERS \subseteq SET_UP_LOGGERS']_vars

\* two handlers have joined the list and a name has joined the set since the
\* module was imported, and no call is in progress
C18_BothHaveGrown ==
    /\ AllIdle
    /\ Len(ADDITIONAL_HANDLERS) = 2
    /\ Cardinality(SET_UP_LOGGERS) = 2

====
